---- MODULE Spec2Model ----
(***************************************************************************)
(* Lifecycle model of lc_sqlalchemy_dbutils.manager.DBManager: one engine, *)
(* one session factory, the stored (unscoped) session or the scoped        *)
(* registry, and the data operations that go through the active session.   *)
(* Engines, factories and sessions are heap objects: they are kept in      *)
(* sequences and the manager's slots hold their index (None == 0).         *)
(* The backend is the database named by connection_url; the model covers   *)
(* the calls it accepts, plus the one DDL it is known to reject (CREATE    *)
(* VIEW of a view that exists).                                            *)
(***************************************************************************)
EXTENDS Integers, Sequences, FiniteSets, TLC

\* ---------------------------------------------------------------- bounds
MaxEngines == 2
MaxSessions == 2

\* The calling contexts (threads) that share the manager, and the records
\* handed to add and delete.
Contexts == {"t1", "t2"}
Records == {"r1"}

\* ------------------------------------------------------------- constants
None == 0
\* gen_session() and session() in scoped mode hand out the scoped_session
\* registry (the factory object itself), not a Session instance.
Registry == -1

\* MetaData objects a caller may pass: 1 declares the table "user",
\* 2 declares "user" and has a view registered on it by view.create_view.
Metadatas == {1, 2}
MdTables(md) == IF md = None THEN {} ELSE {"user"}
MdViews(md) == IF md = 2 THEN {"name_view"} ELSE {}

VARIABLES
    engine,            \* self._engine: None or index into engines
    session,           \* self._session: None or index into sessions
    session_factory,   \* self._session_factory: None or index into factories
    metadata,          \* self.metadata: None or a member of Metadatas
    scoped_sessions,   \* self._scoped_sessions
    engines,           \* every Engine created: [disposed: number of dispose() calls]
    factories,         \* every sessionmaker created: [bind: engine index, scoped]
    sessions,          \* every Session minted: [bind, closed, new, deleted]
    registry,          \* scoped_session registry: context -> None or session index
    backend,           \* the database: [tables, views, rows]
    last,              \* the last call: method, argument, outcome, and the
                       \* manager's slots as they were when it was made
    threads,           \* gen_session calls in progress, statement by statement:
                       \* per thread [pc, persist, local (the minted session), result]
    q,                 \* a query(model, **kwargs) call and its evaluation:
                       \* [table, kwargs, pc, err, rows]
    rend,              \* a compilation of one element for one dialect:
                       \* [element, materialized, dialect, pc, text]
    vw,                \* a metadata with its event listeners and the database
                       \* it is created in: [dialect, hooks, db, log, op, err]
    ff                 \* a from_file call, statement by statement:
                       \* [exists, content, typed, pc, url, prompted, err, manager]

vars == <<engine, session, session_factory, metadata, scoped_sessions,
          engines, factories, sessions, registry, backend, last, threads, q, rend, vw, ff>>

\* The manager and the objects it drives, as one value handed to the methods.
St == [engine |-> engine, session |-> session, session_factory |-> session_factory,
       metadata |-> metadata, scoped_sessions |-> scoped_sessions,
       engines |-> engines, factories |-> factories, sessions |-> sessions,
       registry |-> registry, backend |-> backend]

\* The four slots of the manager.
Slots == [engine |-> engine, session |-> session,
          session_factory |-> session_factory, metadata |-> metadata]

\* ------------------------------------------------------ outcomes of a call
NoDDL == {}
Raise(st, e) == [st |-> st, err |-> e, ret |-> None, ddl |-> NoDDL, touched |-> None]
Return(st, r) == [st |-> st, err |-> "none", ret |-> r, ddl |-> NoDDL, touched |-> None]

\* Every precondition failure of the manager is `raise RuntimeError(...)`;
\* a statement the database rejects surfaces as the driver's error.
ExcType(e) ==
    IF e = "none" THEN "none"
    ELSE IF e = "BackendError" THEN "OperationalError"
    ELSE "RuntimeError"

PreconditionErrors == {"AlreadyConnected", "NoEngine", "NoSchema", "AlreadyFactory",
                       "NoFactory", "SessionAlreadyActive", "NoActiveSession"}

\* ------------------------------------------------------------ DBManager
\* __init__
DBManager(md, scoped) ==
    [engine |-> None, session |-> None, session_factory |-> None,
     metadata |-> md, scoped_sessions |-> scoped,
     engines |-> <<>>, factories |-> <<>>, sessions |-> <<>>,
     registry |-> [c \in Contexts |-> None],
     backend |-> [tables |-> {}, views |-> {}, rows |-> {}],
     slots |-> [engine |-> None, session |-> None, session_factory |-> None,
                metadata |-> md]]

\* Variant: the existing engine is silently replaced.
create_engine_replaces(st) ==
    LET e == Len(st.engines) + 1
    IN  Return([st EXCEPT !.engines = Append(@, [disposed |-> 0]), !.engine = e], None)

create_engine(st) ==
    IF st.engine # None
    THEN Raise(st, "AlreadyConnected")
    ELSE LET e == Len(st.engines) + 1
         IN  Return([st EXCEPT !.engines = Append(@, [disposed |-> 0]),
                               !.engine = e], None)

\* Variant: the pool is disposed but the slot is not cleared.
close_engine_keeps(st) ==
    IF st.engine # None
    THEN Return([st EXCEPT !.engines[st.engine].disposed = @ + 1], None)
    ELSE Return(st, None)

\* Variant: the slot is cleared without disposing of the pool.
close_engine_undisposed(st) ==
    IF st.engine # None
    THEN Return([st EXCEPT !.engine = None], None)
    ELSE Return(st, None)

\* Variant: the factory and the stored session are dropped with the engine.
close_engine_resets(st) ==
    IF st.engine # None
    THEN Return([st EXCEPT !.engines[st.engine].disposed = @ + 1,
                           !.engine = None,
                           !.session_factory = None,
                           !.session = None], None)
    ELSE Return(st, None)

close_engine(st) ==
    IF st.engine # None
    THEN Return([st EXCEPT !.engines[st.engine].disposed = @ + 1,
                           !.engine = None], None)
    ELSE Return(st, None)

with_metadata(st, md) == Return([st EXCEPT !.metadata = md], None)

\* MetaData.create_all(bind): CREATE TABLE for every declared table that is
\* absent (checkfirst), then the after_create listeners, which execute their
\* DDL element unconditionally; CREATE VIEW of an existing view is rejected.
create_all(st, md, bind) ==
    LET b == st.backend
        newTables == MdTables(md) \ b.tables
        tableDDL == {<<"CREATE TABLE", t, bind>> : t \in newTables}
        viewDDL == {<<"CREATE VIEW", v, bind>> : v \in MdViews(md)}
        st1 == [st EXCEPT !.backend.tables = @ \cup newTables]
    IN  IF MdViews(md) \cap b.views # {}
        THEN [Raise(st1, "BackendError") EXCEPT !.ddl = tableDDL \cup viewDDL]
        ELSE [Return([st1 EXCEPT !.backend.views = @ \cup MdViews(md)], None)
                 EXCEPT !.ddl = tableDDL \cup viewDDL]

\* Variant: the metadata check is missing.
bootstrap_db_unchecked(st) ==
    IF st.engine = None THEN Raise(st, "NoEngine")
    ELSE create_all(st, st.metadata, st.engine)

bootstrap_db(st) ==
    IF st.engine = None THEN Raise(st, "NoEngine")
    ELSE IF st.metadata = None THEN Raise(st, "NoSchema")
    ELSE create_all(st, st.metadata, st.engine)

\* Variant: the engine check is missing.
create_session_factory_unbound(st) ==
    IF st.session_factory # None THEN Raise(st, "AlreadyFactory")
    ELSE LET f == Len(st.factories) + 1
         IN  Return([st EXCEPT
                 !.factories = Append(@, [bind |-> st.engine,
                                          scoped |-> st.scoped_sessions]),
                 !.session_factory = f], None)

\* Variant: the existing-factory check is missing.
create_session_factory_again(st) ==
    IF st.engine = None THEN Raise(st, "NoEngine")
    ELSE LET f == Len(st.factories) + 1
         IN  Return([st EXCEPT
                 !.factories = Append(@, [bind |-> st.engine,
                                          scoped |-> st.scoped_sessions]),
                 !.session_factory = f], None)

create_session_factory(st) ==
    IF st.session_factory # None THEN Raise(st, "AlreadyFactory")
    ELSE IF st.engine = None THEN Raise(st, "NoEngine")
    ELSE LET f == Len(st.factories) + 1
         IN  Return([st EXCEPT
                 !.factories = Append(@, [bind |-> st.engine,
                                          scoped |-> st.scoped_sessions]),
                 !.session_factory = f], None)

\* Variant: the engine is created without looking at the slot.
connect_unguarded(st, bootstrap) ==
    LET r1 == create_engine(st)
        r2 == IF bootstrap THEN bootstrap_db(r1.st) ELSE Return(r1.st, None)
        r3 == IF r2.st.session_factory = None
              THEN create_session_factory(r2.st) ELSE Return(r2.st, None)
    IN  IF r1.err # "none" THEN r1
        ELSE IF r2.err # "none" THEN r2
        ELSE [r3 EXCEPT !.ddl = r2.ddl]

connect(st, bootstrap) ==
    LET r1 == IF st.engine = None THEN create_engine(st) ELSE Return(st, None)
        r2 == IF bootstrap THEN bootstrap_db(r1.st) ELSE Return(r1.st, None)
        r3 == IF r2.st.session_factory = None
              THEN create_session_factory(r2.st) ELSE Return(r2.st, None)
    IN  IF r1.err # "none" THEN r1
        ELSE IF r2.err # "none" THEN r2
        ELSE [r3 EXCEPT !.ddl = r2.ddl]

NewSession(st) ==
    [bind |-> st.factories[st.session_factory].bind, closed |-> FALSE,
     new |-> {}, deleted |-> {}]

\* Variant: the stored session is overwritten without a check.
gen_session_overwrites(st, persist) ==
    IF st.session_factory = None THEN Raise(st, "NoFactory")
    ELSE IF st.scoped_sessions THEN Return(st, Registry)
    ELSE LET s == Len(st.sessions) + 1
             st1 == [st EXCEPT !.sessions = Append(@, NewSession(st))]
         IN  IF persist THEN Return([st1 EXCEPT !.session = s], s)
             ELSE Return(st1, s)

\* Variant: the scoped branch is taken before the factory check.
gen_session_scoped_first(st, persist) ==
    IF st.scoped_sessions THEN Return(st, Registry)
    ELSE IF st.session_factory = None THEN Raise(st, "NoFactory")
    ELSE LET s == Len(st.sessions) + 1
             st1 == [st EXCEPT !.sessions = Append(@, NewSession(st))]
         IN  IF persist
             THEN IF st.session # None
                  THEN Raise(st1, "SessionAlreadyActive")
                  ELSE Return([st1 EXCEPT !.session = s], s)
             ELSE Return(st1, s)

\* Variant: a session is minted and stored in scoped mode as well.
gen_session_mints_scoped(st, persist) ==
    IF st.session_factory = None THEN Raise(st, "NoFactory")
    ELSE LET s == Len(st.sessions) + 1
             st1 == [st EXCEPT !.sessions = Append(@, NewSession(st))]
         IN  IF persist
             THEN IF st.session # None
                  THEN Raise(st1, "SessionAlreadyActive")
                  ELSE Return([st1 EXCEPT !.session = s], s)
             ELSE Return(st1, s)

\* Variant: the minted session is stored whatever persist says.
gen_session_always_stores(st, persist) ==
    IF st.session_factory = None THEN Raise(st, "NoFactory")
    ELSE IF st.scoped_sessions THEN Return(st, Registry)
    ELSE LET s == Len(st.sessions) + 1
             st1 == [st EXCEPT !.sessions = Append(@, NewSession(st))]
         IN  IF st.session # None
             THEN Raise(st1, "SessionAlreadyActive")
             ELSE Return([st1 EXCEPT !.session = s], s)

gen_session(st, persist) ==
    IF st.session_factory = None THEN Raise(st, "NoFactory")
    ELSE IF st.scoped_sessions THEN Return(st, Registry)
    ELSE LET s == Len(st.sessions) + 1
             st1 == [st EXCEPT !.sessions = Append(@, NewSession(st))]
         IN  IF persist
             THEN IF st.session # None
                  THEN Raise(st1, "SessionAlreadyActive")
                  ELSE Return([st1 EXCEPT !.session = s], s)
             ELSE Return(st1, s)

\* Variant: the mode is ignored and the factory is handed out whenever it exists.
CurrentSession_any_mode(st) ==
    IF st.session_factory = None THEN st.session ELSE Registry

\* session(): the scoped registry (the factory itself, None before it is
\* created) or the stored session.
CurrentSession(st) ==
    IF st.scoped_sessions
    THEN (IF st.session_factory = None THEN None ELSE Registry)
    ELSE st.session

session_(st) == Return(st, CurrentSession(st))

\* Session.close(): releases the connection and expunges all objects.
CloseSession(st, s) ==
    [st EXCEPT !.sessions[s] = [@ EXCEPT !.closed = TRUE, !.new = {}, !.deleted = {}]]

\* Every session among `ss` closed.
RECURSIVE CloseAll(_, _)
CloseAll(st, ss) ==
    IF ss = {} THEN st
    ELSE LET s == CHOOSE x \in ss : TRUE
         IN  CloseAll(CloseSession(st, s), ss \ {s})

\* Variant: scoped removal closes and discards the sessions of all contexts.
close_session_all(st, ctx) ==
    IF st.scoped_sessions /\ st.session_factory # None
    THEN IF st.registry[ctx] # None
         THEN [Return([CloseAll(st, {st.registry[c] : c \in Contexts} \ {None})
                          EXCEPT !.registry = [c \in Contexts |-> None]], None)
                  EXCEPT !.touched = st.registry[ctx]]
         ELSE Return(st, None)
    ELSE IF st.session # None
    THEN [Return([CloseSession(st, st.session) EXCEPT !.session = None], None)
             EXCEPT !.touched = st.session]
    ELSE Return(st, None)

\* Variant: the stored session is closed but stays in the slot.
close_session_keeps(st, ctx) ==
    IF st.scoped_sessions /\ st.session_factory # None
    THEN IF st.registry[ctx] # None
         THEN [Return([CloseSession(st, st.registry[ctx]) EXCEPT !.registry[ctx] = None], None)
                  EXCEPT !.touched = st.registry[ctx]]
         ELSE Return(st, None)
    ELSE IF st.session # None
    THEN [Return(CloseSession(st, st.session), None) EXCEPT !.touched = st.session]
    ELSE Return(st, None)

\* `touched` is the session that was closed, if any.
close_session(st, ctx) ==
    IF st.scoped_sessions /\ st.session_factory # None
    THEN \* scoped_session.remove(): close and discard the caller's session
         IF st.registry[ctx] # None
         THEN [Return([CloseSession(st, st.registry[ctx]) EXCEPT !.registry[ctx] = None], None)
                  EXCEPT !.touched = st.registry[ctx]]
         ELSE Return(st, None)
    ELSE IF st.session # None
    THEN [Return([CloseSession(st, st.session) EXCEPT !.session = None], None)
             EXCEPT !.touched = st.session]
    ELSE Return(st, None)

\* Variant: only the manager's own slot is looked at.
assert_session_stored(st) ==
    IF st.session = None
    THEN Raise(st, "NoActiveSession")
    ELSE Return(st, st.session)

assert_session(st) ==
    IF CurrentSession(st) = None
    THEN Raise(st, "NoActiveSession")
    ELSE Return(st, CurrentSession(st))

\* A method called on the handle: the scoped registry forwards it to the
\* calling context's session, creating that session on first use.
Resolve(st, h, ctx) ==
    IF h # Registry THEN [st |-> st, s |-> h]
    ELSE IF st.registry[ctx] # None THEN [st |-> st, s |-> st.registry[ctx]]
    ELSE LET s == Len(st.sessions) + 1
         IN  [st |-> [st EXCEPT !.sessions = Append(@, NewSession(st)),
                                !.registry[ctx] = s],
              s |-> s]

\* Session.commit(): flush the staged changes and make them durable.
SessionCommit(st, s) ==
    [st EXCEPT !.backend.rows = (@ \cup st.sessions[s].new) \ st.sessions[s].deleted,
               !.sessions[s] = [@ EXCEPT !.new = {}, !.deleted = {}]]

SessionRollback(st, s) ==
    [st EXCEPT !.sessions[s] = [@ EXCEPT !.new = {}, !.deleted = {}]]

query(st, ctx) ==
    LET a == assert_session(st)
    IN  IF a.err # "none" THEN a
        ELSE LET r == Resolve(st, a.ret, ctx)
             IN  [Return(r.st, a.ret) EXCEPT !.touched = r.s]

\* Variant: the change is committed whatever the flag.
add_autocommit(st, record, commit, ctx) ==
    LET a == assert_session(st)
    IN  IF a.err # "none" THEN a
        ELSE LET r == Resolve(st, a.ret, ctx)
                 st1 == [r.st EXCEPT !.sessions[r.s].new = @ \cup {record},
                                     !.sessions[r.s].deleted = @ \ {record}]
             IN  [Return(SessionCommit(st1, r.s), None) EXCEPT !.touched = r.s]

add(st, record, commit, ctx) ==
    LET a == assert_session(st)
    IN  IF a.err # "none" THEN a
        ELSE LET r == Resolve(st, a.ret, ctx)
                 st1 == [r.st EXCEPT !.sessions[r.s].new = @ \cup {record},
                                     !.sessions[r.s].deleted = @ \ {record}]
             IN  [Return(IF commit THEN SessionCommit(st1, r.s) ELSE st1, None)
                     EXCEPT !.touched = r.s]

delete(st, record, commit, ctx) ==
    LET a == assert_session(st)
    IN  IF a.err # "none" THEN a
        ELSE LET r == Resolve(st, a.ret, ctx)
                 st1 == [r.st EXCEPT !.sessions[r.s].deleted = @ \cup {record},
                                     !.sessions[r.s].new = @ \ {record}]
             IN  [Return(IF commit THEN SessionCommit(st1, r.s) ELSE st1, None)
                     EXCEPT !.touched = r.s]

commit(st, ctx) ==
    LET a == assert_session(st)
    IN  IF a.err # "none" THEN a
        ELSE LET r == Resolve(st, a.ret, ctx)
             IN  [Return(SessionCommit(r.st, r.s), None) EXCEPT !.touched = r.s]

rollback(st, ctx) ==
    LET a == assert_session(st)
    IN  IF a.err # "none" THEN a
        ELSE LET r == Resolve(st, a.ret, ctx)
             IN  [Return(SessionRollback(r.st, r.s), None) EXCEPT !.touched = r.s]

\* ------------------------------------------------------------- the calls
Call(op, arg, r) ==
    /\ engine' = r.st.engine
    /\ session' = r.st.session
    /\ session_factory' = r.st.session_factory
    /\ metadata' = r.st.metadata
    /\ scoped_sessions' = r.st.scoped_sessions
    /\ engines' = r.st.engines
    /\ factories' = r.st.factories
    /\ sessions' = r.st.sessions
    /\ registry' = r.st.registry
    /\ backend' = r.st.backend
    /\ last' = [op |-> op, arg |-> arg, err |-> r.err, exc |-> ExcType(r.err),
                ret |-> r.ret, ddl |-> r.ddl, touched |-> r.touched,
                pre |-> Slots]
    /\ UNCHANGED <<threads, q, rend, vw, ff>>

\* The calls explored stay within the bounds on objects created.
FitsBounds(r) ==
    /\ Len(r.st.engines) <= MaxEngines
    /\ Len(r.st.sessions) <= MaxSessions

\* The database accepts a flush only for tables that exist, and only
\* persistent rows can be marked for deletion.
TableReady(st) == "user" \in st.backend.tables

CreateEngine ==
    \E res \in {create_engine(St)} :
        /\ FitsBounds(res)
        /\ Call("create_engine", FALSE, res)

CloseEngine ==
    \E res \in {close_engine(St)} :
        /\ FitsBounds(res)
        /\ Call("close_engine", FALSE, res)

WithMetadata ==
    \E md \in Metadatas :
        \E res \in {with_metadata(St, md)} :
            /\ FitsBounds(res)
            /\ Call("with_metadata", FALSE, res)

BootstrapDb ==
    \E res \in {bootstrap_db(St)} :
        /\ FitsBounds(res)
        /\ Call("bootstrap_db", FALSE, res)

CreateSessionFactory ==
    \E res \in {create_session_factory(St)} :
        /\ FitsBounds(res)
        /\ Call("create_session_factory", FALSE, res)

Connect ==
    \E bootstrap \in BOOLEAN :
        \E res \in {connect(St, bootstrap)} :
            /\ FitsBounds(res)
            /\ Call("connect", bootstrap, res)

GenSession ==
    \E persist \in BOOLEAN :
        \E res \in {gen_session(St, persist)} :
            /\ FitsBounds(res)
            /\ Call("gen_session", persist, res)

SessionCall ==
    \E res \in {session_(St)} :
        /\ FitsBounds(res)
        /\ Call("session", FALSE, res)

\* The calls below are made from a calling context (thread) ctx.
CloseSessionBy(ctx) ==
    \E res \in {close_session(St, ctx)} :
        /\ FitsBounds(res)
        /\ Call("close_session", FALSE, res)

QueryBy(ctx) ==
    \E res \in {query(St, ctx)} :
        /\ FitsBounds(res)
        /\ Call("query", FALSE, res)

AddBy(ctx) ==
    \E record \in Records, c \in BOOLEAN :
        \E res \in {add(St, record, c, ctx)} :
            /\ FitsBounds(res)
            /\ c /\ CurrentSession(St) # None => TableReady(St)
            /\ Call("add", c, res)

DeleteBy(ctx) ==
    \E record \in Records, c \in BOOLEAN :
        \E res \in {delete(St, record, c, ctx)} :
            /\ FitsBounds(res)
            /\ CurrentSession(St) # None => record \in backend.rows
            /\ Call("delete", c, res)

CommitBy(ctx) ==
    \E res \in {commit(St, ctx)} :
        /\ FitsBounds(res)
        /\ CurrentSession(St) # None => TableReady(St)
        /\ Call("commit", FALSE, res)

RollbackBy(ctx) ==
    \E res \in {rollback(St, ctx)} :
        /\ FitsBounds(res)
        /\ Call("rollback", FALSE, res)

CloseSessionCall == \E ctx \in Contexts : CloseSessionBy(ctx)

Query == \E ctx \in Contexts : QueryBy(ctx)

Add == \E ctx \in Contexts : AddBy(ctx)

Delete == \E ctx \in Contexts : DeleteBy(ctx)

Commit == \E ctx \in Contexts : CommitBy(ctx)

Rollback == \E ctx \in Contexts : RollbackBy(ctx)

\* No query under evaluation.
QIdle == [table |-> {}, kwargs |-> <<>>, pc |-> "idle", err |-> "none", rows |-> {}]

\* Nothing being compiled.
NoLength == [present |-> FALSE, n |-> 0]
NoSelectable == [columns |-> "", table |-> "", where |-> <<>>]
NoElement == [cls |-> "None", length |-> NoLength, name |-> "", selectable |-> NoSelectable]
RIdle == [element |-> NoElement, materialized |-> FALSE, dialect |-> "none",
          pc |-> "idle", text |-> ""]

\* A manager as constructed, no call in progress.
InitManager ==
    \E md \in {None} \cup Metadatas, scoped \in BOOLEAN :
        /\ engine = DBManager(md, scoped).engine
        /\ session = DBManager(md, scoped).session
        /\ session_factory = DBManager(md, scoped).session_factory
        /\ metadata = DBManager(md, scoped).metadata
        /\ scoped_sessions = DBManager(md, scoped).scoped_sessions
        /\ engines = DBManager(md, scoped).engines
        /\ factories = DBManager(md, scoped).factories
        /\ sessions = DBManager(md, scoped).sessions
        /\ registry = DBManager(md, scoped).registry
        /\ backend = DBManager(md, scoped).backend
        /\ last = [op |-> "init", arg |-> FALSE, err |-> "none", exc |-> "none",
                   ret |-> None, ddl |-> NoDDL, touched |-> None,
                   pre |-> DBManager(md, scoped).slots]
        /\ threads = [t \in Contexts |->
                         [pc |-> "idle", persist |-> FALSE, local |-> None,
                          result |-> "none"]]

\* A metadata declaring the user table, no listener, an empty database.
VIdle(dialect) ==
    [dialect |-> dialect,
     hooks |-> [after_create |-> <<>>, before_drop |-> <<>>],
     db |-> [tables |-> {}, views |-> {}, rows |-> {}],
     log |-> <<>>, op |-> "none", err |-> "none"]

\* No from_file call in progress.
NoPassword == [set |-> FALSE, text |-> ""]
NoURL == [drivername |-> <<>>, password |-> NoPassword]
FIdle == [exists |-> FALSE, content |-> NoURL, valid |-> FALSE, typed |-> "",
          pc |-> "idle", url |-> NoURL, prompted |-> FALSE, err |-> "none",
          manager |-> NoURL]

Init ==
    /\ InitManager
    /\ q = QIdle
    /\ rend = RIdle
    /\ vw = VIdle("sqlite")
    /\ ff = FIdle

Next ==
    \/ CreateEngine
    \/ CloseEngine
    \/ WithMetadata
    \/ BootstrapDb
    \/ CreateSessionFactory
    \/ Connect
    \/ GenSession
    \/ SessionCall
    \/ CloseSessionCall
    \/ Query
    \/ Add
    \/ Delete
    \/ Commit
    \/ Rollback

Spec == Init /\ [][Next]_vars

\* ------------------------------------------- gen_session, unsynchronized
\* Two threads call gen_session on one unscoped manager; each statement of
\* the method is a step, so the steps of the two calls interleave.
Manager == <<engine, session_factory, metadata, scoped_sessions, engines,
             factories, registry, backend, last, q, rend, vw, ff>>

InFlight == {t \in Contexts : threads[t].pc # "idle"}

GenBegin(t) ==
    \E persist \in BOOLEAN :
        /\ threads[t].pc = "idle"
        /\ Len(sessions) + Cardinality({u \in InFlight : threads[u].local = None})
              < MaxSessions
        /\ threads' = [threads EXCEPT ![t] = [pc |-> "check_factory", persist |-> persist,
                                              local |-> None, result |-> "none"]]
        /\ UNCHANGED <<Manager, session, sessions>>

\* if not self._session_factory: raise
GenCheckFactory(t) ==
    /\ threads[t].pc = "check_factory"
    /\ threads' = [threads EXCEPT ![t] =
                      IF session_factory = None
                      THEN [@ EXCEPT !.pc = "idle", !.result = "NoFactory"]
                      ELSE [@ EXCEPT !.pc = "mint"]]
    /\ UNCHANGED <<Manager, session, sessions>>

\* session = self._session_factory()
GenMint(t) ==
    /\ threads[t].pc = "mint"
    /\ sessions' = Append(sessions, NewSession(St))
    /\ threads' = [threads EXCEPT ![t] =
                      [@ EXCEPT !.local = Len(sessions) + 1,
                                !.pc = IF threads[t].persist THEN "check_stored"
                                        ELSE "return"]]
    /\ UNCHANGED <<Manager, session>>

\* Variant: the stored session is not looked at.
GenCheckStored_blind(t) ==
    /\ threads[t].pc = "check_stored"
    /\ threads' = [threads EXCEPT ![t] = [@ EXCEPT !.pc = "assign"]]
    /\ UNCHANGED <<Manager, session, sessions>>

\* if self._session: raise
GenCheckStored(t) ==
    /\ threads[t].pc = "check_stored"
    /\ threads' = [threads EXCEPT ![t] =
                      IF session # None
                      THEN [@ EXCEPT !.pc = "idle", !.result = "SessionAlreadyActive"]
                      ELSE [@ EXCEPT !.pc = "assign"]]
    /\ UNCHANGED <<Manager, session, sessions>>

\* self._session = session
GenAssign(t) ==
    /\ threads[t].pc = "assign"
    /\ session' = threads[t].local
    /\ threads' = [threads EXCEPT ![t] = [@ EXCEPT !.pc = "return"]]
    /\ UNCHANGED <<Manager, sessions>>

\* return session
GenReturn(t) ==
    /\ threads[t].pc = "return"
    /\ threads' = [threads EXCEPT ![t] = [@ EXCEPT !.pc = "idle", !.result = "ok"]]
    /\ UNCHANGED <<Manager, session, sessions>>

GenStep ==
    \E t \in Contexts :
        \/ GenBegin(t)
        \/ GenCheckFactory(t)
        \/ GenMint(t)
        \/ GenCheckStored(t)
        \/ GenAssign(t)
        \/ GenReturn(t)

InitRace == Init /\ ~scoped_sessions

NextRace ==
    \/ Connect
    \/ CloseSessionCall
    \/ GenStep

SpecRace == InitRace /\ [][NextRace]_vars

\* ------------------------------------------------- query(model, **kwargs)
\* The User model: its columns and the values met in them.
Columns == {"first_name", "email"}
ColumnValues(c) == IF c = "first_name" THEN {"Ann", "Bob"} ELSE {"a@x.io", "b@x.io"}
Rows == {r \in [Columns -> {"Ann", "Bob", "a@x.io", "b@x.io"}] :
            \A c \in Columns : r[c] \in ColumnValues(c)}

\* The column values of a record handed to add / delete.
RecordRow(record) == [first_name |-> "Ann", email |-> "a@x.io"]

\* kwargs is a dict: keys are distinct, iteration follows insertion order.
Pair == {<<c, v>> \in Columns \X {"Ann", "Bob", "a@x.io", "b@x.io"} : v \in ColumnValues(c)}
Kwargs == {k \in UNION {[1..n -> Pair] : n \in 0..Cardinality(Columns)} :
              \A i, j \in 1..Len(k) : i # j => k[i][1] # k[j][1]}

\* session.query(model): a Query with no criterion.
SessionQuery == [whereclause |-> <<>>]

\* Variant: a new criterion replaces the one in place.
QueryFilter_replaces(qry, criterion) == [qry EXCEPT !.whereclause = <<criterion>>]

\* Query.filter(column == value): the criterion is ANDed to those in place.
QueryFilter(qry, criterion) == [qry EXCEPT !.whereclause = Append(@, criterion)]

\* for arg in kwargs: query = query.filter(getattr(model, arg) == kwargs[arg])
RECURSIVE FilterLoop(_, _)
FilterLoop(qry, kwargs) ==
    IF kwargs = <<>> THEN qry
    ELSE FilterLoop(QueryFilter(qry, Head(kwargs)), Tail(kwargs))

\* The rows the database returns for the Query: those on which every
\* criterion of the WHERE clause (joined by AND) is true.
RECURSIVE Where(_, _)
Where(row, clause) ==
    IF clause = <<>> THEN TRUE
    ELSE (row[Head(clause)[1]] = Head(clause)[2]) /\ Where(row, Tail(clause))

Execute(qry, table) == {row \in table : Where(row, qry.whereclause)}

RunQuery ==
    /\ q.pc = "call"
    /\ q' = IF assert_session(St).err # "none"
            THEN [q EXCEPT !.pc = "done", !.err = assert_session(St).err]
            ELSE [q EXCEPT !.pc = "done",
                           !.rows = Execute(FilterLoop(SessionQuery, q.kwargs), q.table)]
    /\ UNCHANGED <<engine, session, session_factory, metadata, scoped_sessions,
                   engines, factories, sessions, registry, backend, last, threads, rend, vw, ff>>

\* An unscoped manager after connect(bootstrap=True); gen_session(persist=True),
\* a user table with any content, and any kwargs.
InitQuery ==
    LET st == gen_session(connect(DBManager(1, FALSE), TRUE).st, TRUE).st
    IN  /\ engine = st.engine
        /\ session = st.session
        /\ session_factory = st.session_factory
        /\ metadata = st.metadata
        /\ scoped_sessions = st.scoped_sessions
        /\ engines = st.engines
        /\ factories = st.factories
        /\ sessions = st.sessions
        /\ registry = st.registry
        /\ backend = st.backend
        /\ last = [op |-> "gen_session", arg |-> TRUE, err |-> "none", exc |-> "none",
                   ret |-> st.session, ddl |-> NoDDL, touched |-> None,
                   pre |-> [engine |-> st.engine, session |-> None,
                            session_factory |-> st.session_factory,
                            metadata |-> st.metadata]]
        /\ threads = [t \in Contexts |->
                         [pc |-> "idle", persist |-> FALSE, local |-> None,
                          result |-> "none"]]
        /\ rend = RIdle
        /\ vw = VIdle("sqlite")
        /\ ff = FIdle
        /\ \E table \in SUBSET Rows, kwargs \in Kwargs :
              q = [QIdle EXCEPT !.table = table, !.kwargs = kwargs, !.pc = "call"]

SpecQuery == InitQuery /\ [][RunQuery]_vars

\* --------------------------------------------- dialect-specific compilation
Dialects == {"mssql", "mysql", "oracle", "postgresql", "sqlite"}

Classes == {"TimestampDefaultExpression", "UnicodeTextDefaultType",
            "CreateViewExpression", "CreateMaterializedViewExpression",
            "DropViewExpression", "DropMaterializedViewExpression"}

\* The class a class extends.
Parent(cls) ==
    CASE cls = "CreateMaterializedViewExpression" -> "CreateViewExpression"
      [] cls = "DropMaterializedViewExpression" -> "DropViewExpression"
      [] cls \in {"CreateViewExpression", "DropViewExpression"} -> "DDLElement"
      [] OTHER -> "ClauseElement"

\* The dialects each @compiles decorator registers a function for
\* ("default": the decorator names no dialect).
Specs(cls) ==
    CASE cls \in {"TimestampDefaultExpression", "UnicodeTextDefaultType"} -> Dialects
      [] cls \in {"CreateViewExpression", "DropViewExpression"} -> {"default"}
      [] OTHER -> {"postgresql"}

\* Variant: a class with no function for the dialect is not compilable.
Dispatcher_no_inherit(cls, dialect) ==
    IF dialect \in Specs(cls) THEN <<cls, dialect>>
    ELSE IF "default" \in Specs(cls) THEN <<cls, "default">>
    ELSE <<"unsupported", dialect>>

\* The function compiling an element of the class for the dialect: the one
\* registered for the dialect, else the default one, which for a class that
\* registers none is the compilation of its parent class.
RECURSIVE Dispatcher(_, _)
Dispatcher(cls, dialect) ==
    IF dialect \in Specs(cls) THEN <<cls, dialect>>
    ELSE IF "default" \in Specs(cls) THEN <<cls, "default">>
    ELSE IF Parent(cls) \in Classes THEN Dispatcher(Parent(cls), dialect)
    ELSE <<"unsupported", dialect>>

\* "{}".format(n) of a positive integer: its decimal digits.
RECURSIVE FormatInt(_)
FormatInt(n) ==
    LET digit == <<"0", "1", "2", "3", "4", "5", "6", "7", "8", "9">>[(n % 10) + 1]
    IN  IF n < 10 THEN digit ELSE FormatInt(n \div 10) \o digit

\* not element.length or element.length <= 0 (None and 0 are falsy)
Unbounded(length) == ~length.present \/ length.n = 0 \/ length.n <= 0

generate_timestamp_expression(dialect) ==
    CASE dialect = "mssql" -> "GETUTCDATE()"
      [] dialect = "mysql" -> "UTC_TIMESTAMP()"
      [] dialect = "oracle" -> "SYS_EXTRACT_UTC(SYSTIMESTAMP)"
      [] dialect = "postgresql" -> "(NOW() AT TIME ZONE 'UTC')"
      [] dialect = "sqlite" -> "CURRENT_TIMESTAMP"

\* Variant: only an absent length is unbounded.
generate_ntext_type_absent_only(element, dialect) ==
    CASE dialect = "mssql" ->
            "NVARCHAR(" \o (IF ~element.length.present THEN "MAX"
                            ELSE FormatInt(element.length.n)) \o ")"
      [] dialect = "oracle" ->
            "NVARCHAR2(" \o (IF ~element.length.present THEN FormatInt(4000)
                             ELSE FormatInt(element.length.n)) \o ")"
      [] OTHER -> "TEXT"

generate_ntext_type(element, dialect) ==
    CASE dialect = "mssql" ->
            "NVARCHAR(" \o (IF Unbounded(element.length) THEN "MAX"
                            ELSE FormatInt(element.length.n)) \o ")"
      [] dialect = "oracle" ->
            "NVARCHAR2(" \o (IF Unbounded(element.length) THEN FormatInt(4000)
                             ELSE FormatInt(element.length.n)) \o ")"
      [] OTHER -> "TEXT"

\* compiler.sql_compiler.process(selectable, literal_binds=...): the SELECT
\* text, a bound value written in place when literal_binds is set and as a
\* named parameter otherwise.
Process(selectable, literal_binds) ==
    "SELECT " \o selectable.columns \o " FROM " \o selectable.table \o
    (IF selectable.where = <<>> THEN ""
     ELSE " WHERE " \o selectable.table \o "." \o selectable.where[1] \o " = " \o
          (IF literal_binds THEN "'" \o selectable.where[2] \o "'"
           ELSE ":" \o selectable.where[1] \o "_1"))

generate_view_create_expression(element) ==
    "CREATE VIEW " \o element.name \o " AS " \o Process(element.selectable, TRUE)

generate_mview_create_expression(element) ==
    "CREATE MATERIALIZED VIEW " \o element.name \o " AS " \o Process(element.selectable, TRUE)

generate_view_drop_expression(element) ==
    "DROP VIEW IF EXISTS " \o element.name

generate_mview_drop_expression(element) ==
    "DROP MATERIZLIZED VIEW IF EXISTS " \o element.name

\* The text of the element for the dialect.
Compile(element, dialect) ==
    LET fn == Dispatcher(element.cls, dialect)
    IN  CASE fn[1] = "TimestampDefaultExpression" -> generate_timestamp_expression(fn[2])
          [] fn[1] = "UnicodeTextDefaultType" -> generate_ntext_type(element, fn[2])
          [] fn[1] = "CreateViewExpression" -> generate_view_create_expression(element)
          [] fn[1] = "CreateMaterializedViewExpression" -> generate_mview_create_expression(element)
          [] fn[1] = "DropViewExpression" -> generate_view_drop_expression(element)
          [] fn[1] = "DropMaterializedViewExpression" -> generate_mview_drop_expression(element)
          [] OTHER -> "UnsupportedCompilationError"

\* The elements create_view builds for a view.
CreateElement(name, selectable, materialized) ==
    [cls |-> IF materialized THEN "CreateMaterializedViewExpression"
             ELSE "CreateViewExpression",
     length |-> NoLength, name |-> name, selectable |-> selectable]

DropElement(name, materialized) ==
    [cls |-> IF materialized THEN "DropMaterializedViewExpression"
             ELSE "DropViewExpression",
     length |-> NoLength, name |-> name, selectable |-> NoSelectable]

\* The inputs explored.
MaxLength == 12
Lengths == {NoLength} \cup [present : {TRUE}, n : -2..MaxLength]
ViewNames == {"user_names", "name_view"}
Selectables ==
    {[columns |-> "\"user\".id, \"user\".first_name", table |-> "\"user\"", where |-> <<>>],
     [columns |-> "\"user\".id, \"user\".first_name", table |-> "\"user\"",
      where |-> <<"first_name", "Ann">>]}

Elements ==
    {[NoElement EXCEPT !.cls = "TimestampDefaultExpression"]}
    \cup {[NoElement EXCEPT !.cls = "UnicodeTextDefaultType", !.length = l] : l \in Lengths}

Render ==
    /\ rend.pc = "call"
    /\ rend' = [rend EXCEPT !.pc = "done", !.text = Compile(rend.element, rend.dialect)]
    /\ UNCHANGED <<engine, session, session_factory, metadata, scoped_sessions,
                   engines, factories, sessions, registry, backend, last, threads, q, vw, ff>>

InitRender ==
    /\ InitManager
    /\ q = QIdle
    /\ vw = VIdle("sqlite")
    /\ ff = FIdle
    /\ \E dialect \in Dialects :
          \/ \E element \in Elements :
                rend = [RIdle EXCEPT !.element = element, !.dialect = dialect,
                                     !.pc = "call"]
          \/ \E name \in ViewNames, selectable \in Selectables, materialized \in BOOLEAN :
                rend = [RIdle EXCEPT !.element = CreateElement(name, selectable, materialized),
                                     !.materialized = materialized,
                                     !.dialect = dialect, !.pc = "call"]
          \/ \E name \in ViewNames, materialized \in BOOLEAN :
                rend = [RIdle EXCEPT !.element = DropElement(name, materialized),
                                     !.materialized = materialized,
                                     !.dialect = dialect, !.pc = "call"]

SpecRender == InitRender /\ [][Render]_vars

\* ------------------------------------------------ create_view and its hooks
\* The statement an element compiles to for the dialect.
Statement(element, dialect) ==
    [text |-> Compile(element, dialect), name |-> element.name,
     selectable |-> element.selectable]

TableStatement(verb, table) ==
    [text |-> verb \o " TABLE " \o table, name |-> table, selectable |-> NoSelectable]

\* The rows a select yields over the user table.
SelectRows(selectable, rows) ==
    {row \in rows : Where(row, IF selectable.where = <<>> THEN <<>>
                               ELSE <<selectable.where>>)}

\* The rows a view yields: those of its select, taken when the view was
\* created if it is a materialized one.
ViewRows(view, db) ==
    IF view.stored THEN view.snap ELSE SelectRows(view.selectable, db.rows)

Relations(db) == db.tables \cup {v.name : v \in db.views}

\* The database executes one statement: [db, err].
ExecuteDDL(db, stmt) ==
    CASE stmt.text = "CREATE VIEW " \o stmt.name \o " AS " \o Process(stmt.selectable, TRUE) ->
            IF stmt.name \in Relations(db) THEN [db |-> db, err |-> "BackendError"]
            ELSE [db |-> [db EXCEPT !.views = @ \cup {[name |-> stmt.name,
                                                       selectable |-> stmt.selectable,
                                                       stored |-> FALSE, snap |-> {}]}],
                  err |-> "none"]
      [] stmt.text = "CREATE MATERIALIZED VIEW " \o stmt.name \o " AS "
                         \o Process(stmt.selectable, TRUE) ->
            IF stmt.name \in Relations(db) THEN [db |-> db, err |-> "BackendError"]
            ELSE [db |-> [db EXCEPT !.views = @ \cup
                              {[name |-> stmt.name, selectable |-> stmt.selectable,
                                stored |-> TRUE,
                                snap |-> SelectRows(stmt.selectable, db.rows)]}],
                  err |-> "none"]
      [] stmt.text = "DROP VIEW IF EXISTS " \o stmt.name ->
            IF \E v \in db.views : v.name = stmt.name /\ v.stored
            THEN [db |-> db, err |-> "BackendError"]
            ELSE [db |-> [db EXCEPT !.views = {v \in @ : v.name # stmt.name}],
                  err |-> "none"]
      [] stmt.text = "DROP MATERIALIZED VIEW IF EXISTS " \o stmt.name ->
            IF \E v \in db.views : v.name = stmt.name /\ ~v.stored
            THEN [db |-> db, err |-> "BackendError"]
            ELSE [db |-> [db EXCEPT !.views = {v \in @ : v.name # stmt.name}],
                  err |-> "none"]
      [] OTHER -> [db |-> db, err |-> "BackendError"]

\* The listeners of one event run in registration order, each executing its
\* statement; the first failure propagates.
RECURSIVE RunListeners(_, _, _, _)
RunListeners(db, log, elements, dialect) ==
    IF elements = <<>> THEN [db |-> db, log |-> log, err |-> "none"]
    ELSE LET stmt == Statement(Head(elements), dialect)
             r == ExecuteDDL(db, stmt)
         IN  IF r.err # "none" THEN [db |-> db, log |-> Append(log, stmt), err |-> r.err]
             ELSE RunListeners(r.db, Append(log, stmt), Tail(elements), dialect)

\* create_view: one listener appended to each event of the metadata.
create_view(v, name, selectable, materialized) ==
    [v EXCEPT !.hooks.after_create = Append(@, CreateElement(name, selectable, materialized)),
              !.hooks.before_drop = Append(@, DropElement(name, materialized)),
              !.log = <<>>, !.op = "create_view", !.err = "none"]

\* MetaData.create_all(engine): the missing tables, then the after_create
\* listeners.
metadata_create_all(v) ==
    LET missing == MdTables(1) \ v.db.tables
        log == IF missing = {} THEN <<>> ELSE <<TableStatement("CREATE", "user")>>
        r == RunListeners([v.db EXCEPT !.tables = @ \cup missing], log,
                          v.hooks.after_create, v.dialect)
    IN  [v EXCEPT !.db = r.db, !.log = r.log, !.op = "create_all", !.err = r.err]

\* MetaData.drop_all(engine): the before_drop listeners, then the tables
\* present (postgresql refuses to drop a table a view depends on).
metadata_drop_all(v) ==
    LET r == RunListeners(v.db, <<>>, v.hooks.before_drop, v.dialect)
        present == MdTables(1) \cap r.db.tables
        log == IF present = {} THEN r.log
               ELSE Append(r.log, TableStatement("DROP", "user"))
    IN  IF r.err # "none"
        THEN [v EXCEPT !.db = r.db, !.log = r.log, !.op = "drop_all", !.err = r.err]
        ELSE IF present # {} /\ v.dialect = "postgresql" /\ r.db.views # {}
        THEN [v EXCEPT !.db = r.db, !.log = log, !.op = "drop_all", !.err = "BackendError"]
        ELSE [v EXCEPT !.db = [r.db EXCEPT !.tables = @ \ present, !.rows = {}],
                       !.log = log, !.op = "drop_all", !.err = "none"]

ViewFrame ==
    UNCHANGED <<engine, session, session_factory, metadata, scoped_sessions,
                engines, factories, sessions, registry, backend, last, threads, q, rend, ff>>

Registered == {vw.hooks.after_create[i].name : i \in 1..Len(vw.hooks.after_create)}

CreateView ==
    /\ \E name \in ViewNames \ Registered, selectable \in Selectables,
          materialized \in BOOLEAN :
          vw' = create_view(vw, name, selectable, materialized)
    /\ ViewFrame

CreateAll ==
    /\ vw' = metadata_create_all(vw)
    /\ ViewFrame

DropAll ==
    /\ vw' = metadata_drop_all(vw)
    /\ ViewFrame

\* A committed insert into the user table.
InsertRow ==
    /\ "user" \in vw.db.tables
    /\ \E row \in Rows \ vw.db.rows :
          vw' = [vw EXCEPT !.db.rows = @ \cup {row}, !.log = <<>>,
                           !.op = "insert", !.err = "none"]
    /\ ViewFrame

InitView ==
    /\ InitManager
    /\ metadata = None
    /\ ~scoped_sessions
    /\ q = QIdle
    /\ rend = RIdle
    /\ ff = FIdle
    /\ \E dialect \in {"sqlite", "postgresql"} : vw = VIdle(dialect)

NextView == CreateView \/ CreateAll \/ DropAll \/ InsertRow

SpecView == InitView /\ [][NextView]_vars

\* ------------------------------------------------------------ from_file
\* Driver names, character by character ("x" in name is a substring test).
DriverNames ==
    {<<"s", "q", "l", "i", "t", "e">>,
     <<"s", "q", "l", "i", "t", "e", "+", "p", "y", "s", "q", "l", "i", "t", "e">>,
     <<"m", "s", "s", "q", "l", "+", "p", "y", "s", "q", "l", "i", "t", "e">>,
     <<"p", "o", "s", "t", "g", "r", "e", "s", "q", "l">>,
     <<"p", "o", "s", "t", "g", "r", "e", "s", "q", "l", "+", "p", "g", "8", "0", "0", "0">>,
     <<"m", "y", "s", "q", "l">>}

Passwords == {NoPassword, [set |-> TRUE, text |-> ""], [set |-> TRUE, text |-> "kx%jj5/g"]}

URLs == [drivername : DriverNames, password : Passwords]

\* needle in hay
Contains(hay, needle) ==
    \E i \in 1..(Len(hay) - Len(needle) + 1) :
        SubSeq(hay, i, i + Len(needle) - 1) = needle

\* A password that is None or empty is falsy.
Truthy(password) == password.set /\ password.text # ""

\* Variant: the driver is not looked at.
NeedsPassword_any_driver(url) == ~Truthy(url.password)

\* not ("sqlite" in connection_url.drivername or connection_url.password)
NeedsPassword(url) ==
    ~(Contains(url.drivername, <<"s", "q", "l", "i", "t", "e">>) \/ Truthy(url.password))

FromFileFrame ==
    UNCHANGED <<engine, session, session_factory, metadata, scoped_sessions,
                engines, factories, sessions, registry, backend, last, threads,
                q, rend, vw>>

\* if not config_path.is_file(): raise FileNotFoundError
FromFileOpen ==
    /\ ff.pc = "call"
    /\ ff' = IF ff.exists THEN [ff EXCEPT !.pc = "parse"]
             ELSE [ff EXCEPT !.pc = "done", !.err = "FileNotFoundError"]
    /\ FromFileFrame

\* connection_url = make_url(connection_url_str), ValueError if it fails
FromFileParse ==
    /\ ff.pc = "parse"
    /\ ff' = IF ff.valid THEN [ff EXCEPT !.pc = "check", !.url = ff.content]
             ELSE [ff EXCEPT !.pc = "done", !.err = "ValueError"]
    /\ FromFileFrame

FromFileCheck ==
    /\ ff.pc = "check"
    /\ ff' = [ff EXCEPT !.pc = IF NeedsPassword(ff.url) THEN "prompt" ELSE "construct"]
    /\ FromFileFrame

\* passwd = getpass(...); connection_url.password = passwd
FromFilePrompt ==
    /\ ff.pc = "prompt"
    /\ ff' = [ff EXCEPT !.pc = "construct", !.prompted = TRUE,
                        !.url.password = [set |-> TRUE, text |-> ff.typed]]
    /\ FromFileFrame

\* return cls(connection_url)
FromFileConstruct ==
    /\ ff.pc = "construct"
    /\ ff' = [ff EXCEPT !.pc = "done", !.manager = ff.url]
    /\ FromFileFrame

InitFromFile ==
    /\ InitManager
    /\ metadata = None
    /\ ~scoped_sessions
    /\ q = QIdle
    /\ rend = RIdle
    /\ vw = VIdle("sqlite")
    /\ \E exists \in BOOLEAN, valid \in BOOLEAN, content \in URLs,
          typed \in {"", "passphrase"} :
          ff = [FIdle EXCEPT !.exists = exists, !.valid = valid, !.content = content,
                             !.typed = typed, !.pc = "call"]

NextFromFile ==
    FromFileOpen \/ FromFileParse \/ FromFileCheck \/ FromFilePrompt \/ FromFileConstruct

SpecFromFile == InitFromFile /\ [][NextFromFile]_vars

\* ------------------------------------------------------------ properties
DataOps == {"query", "add", "delete", "commit", "rollback"}


\* C1: create_engine on a manager without engine succeeds and stores a fresh,
\* undisposed engine; create_engine while an engine is held raises the
\* RuntimeError "Cannot attach new Engine ..." (AlreadyConnected) and the
\* manager keeps the same engine, neither disposed nor replaced.
C1_CreateEngineOnce ==
    [][last'.op = "create_engine" =>
         /\ engine = None =>
               /\ last'.err = "none"
               /\ engine' = Len(engines) + 1
               /\ Len(engines') = Len(engines) + 1
               /\ engines'[engine'].disposed = 0
         /\ engine # None =>
               /\ last'.err = "AlreadyConnected"
               /\ last'.exc = "RuntimeError"
               /\ engine' = engine
               /\ engines' = engines
               /\ engines'[engine'].disposed = 0]_vars

C1_Witness ==
    /\ last.op = "create_engine"
    /\ last.err = "AlreadyConnected"
    /\ engine # None
    /\ last.pre.engine = engine
    /\ engines[engine].disposed = 0

\* C2: unscoped, gen_session(persist=True) while a session is stored raises
\* SessionAlreadyActive (RuntimeError); the stored session stays in the slot,
\* is not closed and keeps its staged changes.
C2_SecondPersistFails ==
    [][(last'.op = "gen_session" /\ last'.arg /\ ~scoped_sessions
          /\ session_factory # None /\ session # None) =>
         /\ last'.err = "SessionAlreadyActive"
         /\ last'.exc = "RuntimeError"
         /\ session' = session
         /\ sessions'[session] = sessions[session]
         /\ ~sessions'[session'].closed]_vars

C2_Witness ==
    /\ ~scoped_sessions
    /\ last.op = "gen_session" /\ last.arg
    /\ last.err = "SessionAlreadyActive"
    /\ session # None
    /\ last.pre.session = session
    /\ ~sessions[session].closed

\* C3 as stated: create_session_factory without engine fails with NoEngine,
\* whatever the rest of the state.
C3_Original ==
    [][(last'.op = "create_session_factory" /\ engine = None) =>
         last'.err = "NoEngine"]_vars

\* C3 amended: create_session_factory without engine always fails with a
\* RuntimeError and changes nothing; the error is NoEngine when no factory
\* exists and AlreadyFactory when one exists (that check comes first).
C3_NoEngineFails ==
    [][(last'.op = "create_session_factory" /\ engine = None) =>
         /\ last'.exc = "RuntimeError"
         /\ last'.err = (IF session_factory = None THEN "NoEngine" ELSE "AlreadyFactory")
         /\ Slots' = Slots
         /\ factories' = factories]_vars

C3_Witness ==
    /\ last.op = "create_session_factory"
    /\ last.err = "AlreadyFactory"
    /\ engine = None
    /\ session_factory # None

\* C4: create_session_factory with a factory in place raises AlreadyFactory
\* and keeps that factory; no call removes or replaces a factory, so one
\* manager creates at most one factory (create_session_factory or connect).
C4_FactoryOnce ==
    /\ [](Len(factories) <= 1)
    /\ [][/\ session_factory # None => session_factory' = session_factory
          /\ (last'.op = "create_session_factory" /\ session_factory # None) =>
                /\ last'.err = "AlreadyFactory"
                /\ last'.exc = "RuntimeError"
                /\ factories' = factories]_vars

C4_Witness ==
    /\ last.op = "create_session_factory"
    /\ last.err = "AlreadyFactory"
    /\ engine # None
    /\ session_factory = 1
    /\ Len(factories) = 1

\* C5: close_engine never raises; a held engine is disposed exactly once and
\* the slot cleared, nothing else about any engine changes; without engine
\* (so on a second consecutive call) nothing changes at all; afterwards the
\* manager holds no engine and create_engine succeeds.
C5_CloseEngineIdempotent ==
    /\ [](last.op = "close_engine" => (last.err = "none" /\ engine = None))
    /\ [](\A e \in 1..Len(engines) :
            /\ engines[e].disposed <= 1
            /\ e = engine => engines[e].disposed = 0)
    /\ [][/\ last'.op = "close_engine" =>
                /\ last'.err = "none"
                /\ engine' = None
                /\ Len(engines') = Len(engines)
                /\ \A e \in 1..Len(engines) :
                      engines'[e].disposed =
                          engines[e].disposed + (IF e = engine THEN 1 ELSE 0)
                /\ <<session, session_factory, metadata>>' =
                      <<session, session_factory, metadata>>
                /\ engine = None =>
                      <<engines, factories, sessions, registry, backend>>' =
                          <<engines, factories, sessions, registry, backend>>
          /\ (last.op = "close_engine" /\ last'.op = "create_engine") =>
                (last'.err = "none" /\ engine' # None)]_vars

C5_Witness ==
    /\ last.op = "close_engine"
    /\ last.pre.engine = None
    /\ engine = None
    /\ Len(engines) >= 1
    /\ engines[Len(engines)].disposed = 1

C7_NoFactory ==
    [][(last'.op = "gen_session" /\ session_factory = None) =>
         /\ last'.err = "NoFactory"
         /\ last'.exc = "RuntimeError"
         /\ last'.ret = None
         /\ sessions' = sessions
         /\ registry' = registry
         /\ Slots' = Slots]_vars

C7_Witness ==
    /\ last.op = "gen_session"
    /\ last.err = "NoFactory"
    /\ scoped_sessions
    /\ engine # None
    /\ session_factory = None

\* C8: bootstrap_db raises NoEngine without engine and NoSchema with engine
\* but without metadata, issuing no DDL; with engine and metadata it runs
\* create_all of that metadata on the current engine and afterwards every
\* table the metadata declares exists.
C8_BootstrapDb ==
    [][last'.op = "bootstrap_db" =>
         /\ engine = None =>
               (last'.err = "NoEngine" /\ last'.ddl = NoDDL /\ backend' = backend)
         /\ (engine # None /\ metadata = None) =>
               (last'.err = "NoSchema" /\ last'.ddl = NoDDL /\ backend' = backend)
         /\ (engine # None /\ metadata # None) =>
               /\ last'.err \notin PreconditionErrors
               /\ MdViews(metadata) \cap backend.views = {} => last'.err = "none"
               /\ \A d \in last'.ddl : d[3] = engine
               /\ \A t \in MdTables(metadata) \ backend.tables :
                     <<"CREATE TABLE", t, engine>> \in last'.ddl
               /\ MdTables(metadata) \subseteq backend'.tables
         /\ Slots' = Slots]_vars

C8_Witness ==
    /\ last.op = "bootstrap_db"
    /\ last.err = "none"
    /\ <<"CREATE TABLE", "user", engine>> \in last.ddl
    /\ "user" \in backend.tables

\* C9 as stated: a call that ends in a precondition error leaves engine,
\* session factory, stored session and metadata as they were.
C9_FailureLeavesState ==
    [][last'.err \in PreconditionErrors => Slots' = Slots]_vars

\* C10: connect never creates or stores a session; with engine and factory
\* in place it keeps both handles and creates nothing; a connect() that
\* follows a successful connect raises no error, and a repeated
\* connect(bootstrap=True) fails on no precondition.
C10_ConnectTwice ==
    [][last'.op = "connect" =>
         /\ session' = session
         /\ sessions' = sessions
         /\ registry' = registry
         /\ engine # None => (engine' = engine /\ engines' = engines)
         /\ session_factory # None =>
               (session_factory' = session_factory /\ factories' = factories)
         /\ (last.op = "connect" /\ last.err = "none") =>
               /\ ~last'.arg => last'.err = "none"
               /\ last.arg => last'.err \notin PreconditionErrors
               /\ Slots' = Slots]_vars

C10_Witness ==
    /\ last.op = "connect"
    /\ ~last.arg
    /\ last.pre.engine # None
    /\ last.pre.session_factory # None
    /\ last.err = "none"
    /\ engine # None
    /\ session_factory # None

\* C11: scoped mode with a factory: gen_session (either persist value) and
\* session() never raise, both hand out the scoped registry itself, mint no
\* session, leave every context's entry of the registry as it is, and the
\* manager's own session slot stays empty.
C11_ScopedSameHandle ==
    /\ [](scoped_sessions => session = None)
    /\ [][(scoped_sessions /\ session_factory # None
             /\ last'.op \in {"gen_session", "session"}) =>
            /\ last'.err = "none"
            /\ last'.ret = Registry
            /\ last'.ret = CurrentSession(St)
            /\ sessions' = sessions
            /\ registry' = registry
            /\ session' = None]_vars

C11_Witness ==
    /\ scoped_sessions
    /\ last.op = "gen_session" /\ last.arg
    /\ last.ret = Registry
    /\ last.ret = CurrentSession(St)
    /\ \E c \in Contexts : registry[c] # None
    /\ session = None

\* The sessions of the contexts other than c are where and as they were.
OthersUntouched(c) ==
    \A d \in Contexts \ {c} :
        /\ registry'[d] = registry[d]
        /\ registry[d] # None => sessions'[registry[d]] = sessions[registry[d]]

\* C12: scoped mode, calls of several contexts interleaved: no two contexts
\* share a session, a data call works on the caller's session only, and
\* close_session closes and removes the caller's session only; the sessions
\* of the other contexts stay registered, open and keep their staged changes.
C12_ScopedIsolation ==
    /\ [](scoped_sessions =>
            \A c, d \in Contexts :
                (c # d /\ registry[c] # None) => registry[c] # registry[d])
    /\ [](scoped_sessions =>
            \A c \in Contexts : registry[c] # None => ~sessions[registry[c]].closed)
    /\ [][\A c \in Contexts :
            /\ (scoped_sessions /\ session_factory # None
                  /\ last'.op = "close_session" /\ CloseSessionBy(c)) =>
                  /\ last'.err = "none"
                  /\ registry'[c] = None
                  /\ last'.touched = registry[c]
                  /\ registry[c] # None => sessions'[registry[c]].closed
                  /\ OthersUntouched(c)
            /\ (scoped_sessions /\ session_factory # None /\ last'.op \in DataOps
                  /\ CASE last'.op = "query" -> QueryBy(c)
                        [] last'.op = "add" -> AddBy(c)
                        [] last'.op = "delete" -> DeleteBy(c)
                        [] last'.op = "commit" -> CommitBy(c)
                        [] OTHER -> RollbackBy(c)) =>
                  /\ last'.touched = registry'[c]
                  /\ registry[c] # None => registry'[c] = registry[c]
                  /\ OthersUntouched(c)]_vars

C12_Witness ==
    /\ scoped_sessions
    /\ last.op = "close_session"
    /\ last.touched # None
    /\ sessions[last.touched].closed
    /\ \E d \in Contexts :
          /\ registry[d] # None
          /\ ~sessions[registry[d]].closed
          /\ sessions[registry[d]].new # {}

\* C13: unscoped, two threads in gen_session(persist=True) with their
\* statements interleaved. A call whose check of the stored session comes
\* after a session was stored fails with SessionAlreadyActive (so serialized
\* calls cannot both succeed); a call that passed the check before the
\* other's assignment overwrites the stored session, which stays open and
\* is no longer held by the manager. The witness is the state where both
\* calls have returned without error.
C13_UnsyncedGenSession ==
    [][\A t \in Contexts :
         /\ (GenCheckStored(t) /\ session # None) =>
               /\ threads'[t].result = "SessionAlreadyActive"
               /\ threads'[t].pc = "idle"
               /\ session' = session
         /\ (GenCheckStored(t) /\ session = None) => threads'[t].pc = "assign"
         /\ (GenAssign(t) /\ session # None) =>
               /\ session' = threads[t].local
               /\ session' # session
               /\ sessions'[session] = sessions[session]
               /\ ~sessions'[session].closed]_vars

C13_Witness ==
    /\ \A t \in Contexts :
          /\ threads[t].pc = "idle"
          /\ threads[t].persist
          /\ threads[t].result = "ok"
    /\ threads["t1"].local # threads["t2"].local
    /\ session \in {threads["t1"].local, threads["t2"].local}
    /\ \A s \in 1..Len(sessions) : ~sessions[s].closed
    /\ \E t \in Contexts : threads[t].local # session /\ ~sessions[threads[t].local].closed

\* The filter pairs of a query call, whatever their order.
PairsOf(kwargs) == {kwargs[i] : i \in 1..Len(kwargs)}

\* C14: with an active session, query(model, **kwargs) selects exactly the
\* rows on which every supplied pair field = value holds, whatever the order
\* the pairs were supplied in; without pairs it selects every row.
C14_QueryConjunction ==
    q.pc = "done" =>
        /\ q.err = "none"
        /\ q.rows = {row \in q.table : \A p \in PairsOf(q.kwargs) : row[p[1]] = p[2]}
        /\ q.kwargs = <<>> => q.rows = q.table
        /\ \A k \in Kwargs :
              PairsOf(k) = PairsOf(q.kwargs) =>
                  Execute(FilterLoop(SessionQuery, k), q.table) = q.rows

C14_Witness ==
    /\ q.pc = "done"
    /\ Len(q.kwargs) = 2
    /\ q.rows # {}
    /\ q.rows # q.table
    /\ \E row \in q.table \ q.rows : row[q.kwargs[2][1]] = q.kwargs[2][2]

\* The decimal numerals of the lengths explored.
Numeral == <<"1", "2", "3", "4", "5", "6", "7", "8", "9", "10",
             "11", "12", "13", "14", "15", "16">>

\* The marker or numeral the spec's table puts between the parentheses.
TableLength(length, marker) ==
    IF length.present /\ length.n > 0 THEN Numeral[length.n] ELSE marker

\* C15: TimestampDefault renders GETUTCDATE() on mssql, UTC_TIMESTAMP() on
\* mysql, SYS_EXTRACT_UTC(SYSTIMESTAMP) on oracle, (NOW() AT TIME ZONE 'UTC')
\* on postgresql and CURRENT_TIMESTAMP on sqlite; UnicodeText(length) renders
\* TEXT on mysql, postgresql and sqlite, NVARCHAR(n) on mssql and NVARCHAR2(n)
\* on oracle, n being the length when positive and MAX / 4000 when the length
\* is absent, zero or negative.
C15_RenderingTable ==
    rend.pc = "done" =>
        /\ rend.element.cls = "TimestampDefaultExpression" =>
              rend.text = CASE rend.dialect = "mssql" -> "GETUTCDATE()"
                            [] rend.dialect = "mysql" -> "UTC_TIMESTAMP()"
                            [] rend.dialect = "oracle" -> "SYS_EXTRACT_UTC(SYSTIMESTAMP)"
                            [] rend.dialect = "postgresql" -> "(NOW() AT TIME ZONE 'UTC')"
                            [] rend.dialect = "sqlite" -> "CURRENT_TIMESTAMP"
        /\ rend.element.cls = "UnicodeTextDefaultType" =>
              rend.text =
                  CASE rend.dialect = "mssql" ->
                          "NVARCHAR(" \o TableLength(rend.element.length, "MAX") \o ")"
                    [] rend.dialect = "oracle" ->
                          "NVARCHAR2(" \o TableLength(rend.element.length, "4000") \o ")"
                    [] OTHER -> "TEXT"

C15_Witness ==
    /\ rend.pc = "done"
    /\ rend.element.cls = "UnicodeTextDefaultType"
    /\ rend.element.length = [present |-> TRUE, n |-> 0]
    /\ rend.dialect = "mssql"
    /\ rend.text = "NVARCHAR(MAX)"

\* The select query of a view, bound values written in place.
LiteralSelect(selectable) ==
    IF selectable.where = <<>>
    THEN "SELECT \"user\".id, \"user\".first_name FROM \"user\""
    ELSE "SELECT \"user\".id, \"user\".first_name FROM \"user\" WHERE \"user\".first_name = 'Ann'"

\* C16: the view-creation DDL is CREATE VIEW <name> AS <query with literal
\* values> on every dialect when not materialized; when materialized it is
\* CREATE MATERIALIZED VIEW <name> AS <query> on postgresql and the plain
\* CREATE VIEW form on every other dialect.
C16_CreateViewDDL ==
    (rend.pc = "done" /\ rend.element.cls \in {"CreateViewExpression",
                                                "CreateMaterializedViewExpression"}) =>
        rend.text =
            (IF rend.materialized /\ rend.dialect = "postgresql"
             THEN "CREATE MATERIALIZED VIEW " ELSE "CREATE VIEW ")
            \o rend.element.name \o " AS " \o LiteralSelect(rend.element.selectable)

C16_Witness ==
    /\ rend.pc = "done"
    /\ rend.materialized
    /\ rend.dialect = "sqlite"
    /\ rend.text = "CREATE VIEW name_view AS SELECT \"user\".id, \"user\".first_name FROM \"user\" WHERE \"user\".first_name = 'Ann'"

\* C17: the view-drop DDL is DROP VIEW IF EXISTS <name> on every dialect when
\* not materialized; when materialized it is DROP MATERIALIZED VIEW IF EXISTS
\* <name> on postgresql and DROP VIEW IF EXISTS <name> on every other dialect.
C17_DropViewDDL ==
    (rend.pc = "done" /\ rend.element.cls \in {"DropViewExpression",
                                                "DropMaterializedViewExpression"}) =>
        rend.text =
            (IF rend.materialized /\ rend.dialect = "postgresql"
             THEN "DROP MATERIALIZED VIEW IF EXISTS " ELSE "DROP VIEW IF EXISTS ")
            \o rend.element.name

\* The positions of the table statements in a log.
TablePositions(log) ==
    {i \in 1..Len(log) : log[i].text \in {"CREATE TABLE user", "DROP TABLE user"}}

\* A create_view call adds one listener to each event and touches nothing else.
TwoHooksNoDDL ==
    CreateView =>
        /\ Len(vw'.hooks.after_create) = Len(vw.hooks.after_create) + 1
        /\ Len(vw'.hooks.before_drop) = Len(vw.hooks.before_drop) + 1
        /\ vw'.db = vw.db
        /\ vw'.log = <<>>

\* A create-all emits every view's create statement, after the table statements
\* and with the tables in place.
CreateAfterTables ==
    CreateAll =>
        \A k \in 1..Len(vw.hooks.after_create) :
            /\ MdTables(1) \subseteq vw'.db.tables
            /\ \E i \in 1..Len(vw'.log) :
                  /\ vw'.log[i] = Statement(vw.hooks.after_create[k], vw.dialect)
                  /\ \A j \in TablePositions(vw'.log) : j < i

\* A drop-all emits every view's drop statement, before any table statement.
DropBeforeTables ==
    DropAll =>
        \A k \in 1..Len(vw.hooks.before_drop) :
            \E i \in 1..Len(vw'.log) :
                /\ vw'.log[i] = Statement(vw.hooks.before_drop[k], vw.dialect)
                /\ \A j \in TablePositions(vw'.log) : i < j

\* After a create-all every view is a relation yielding the rows of its select.
ViewMatchesSelect ==
    CreateAll =>
        \A k \in 1..Len(vw.hooks.after_create) :
            \E view \in vw'.db.views :
                /\ view.name = vw.hooks.after_create[k].name
                /\ ViewRows(view, vw'.db)
                      = SelectRows(vw.hooks.after_create[k].selectable, vw'.db.rows)

\* C18: create_view registers exactly two hooks on the metadata and emits no
\* DDL itself; on every create-all the view's create statement is emitted after
\* the metadata's tables have been created, on every drop-all the view's drop
\* statement is emitted before any table is dropped, and after create-all the
\* view is a relation returning the same rows as its underlying select.
C18_ViewHooks ==
    [][TwoHooksNoDDL /\ CreateAfterTables /\ DropBeforeTables /\ ViewMatchesSelect]_vars

\* What a session holds staged before a call that may create it.
Staged(s) ==
    IF s <= Len(sessions) THEN sessions[s]
    ELSE [bind |-> None, closed |-> FALSE, new |-> {}, deleted |-> {}]

\* The rows query(User, column=value of r) yields over the committed rows.
QueryOnField(record, column, rows) ==
    Execute(FilterLoop(SessionQuery, <<<<column, RecordRow(record)[column]>>>>),
            {RecordRow(x) : x \in rows})

\* C19: with an active session, add and delete with commit=False only stage
\* the change on the session; commit() makes the staged changes durable and
\* rollback() discards them; with commit=True the change is committed within
\* the call, and after add(r, commit=True) on an empty table a query filtered
\* on a field of r yields exactly the row r.
C19_StageCommitRollback ==
    [][LET s == last'.touched
           staged == ~last'.arg
           op(name) == last'.op = name /\ last'.err = "none"
       IN  /\ (op("add") /\ staged) =>
                 /\ backend' = backend
                 /\ sessions'[s].new = Staged(s).new \cup Records
                 /\ sessions'[s].deleted = Staged(s).deleted \ Records
           /\ (op("delete") /\ staged) =>
                 /\ backend' = backend
                 /\ sessions'[s].deleted = Staged(s).deleted \cup Records
           /\ op("commit") =>
                 /\ backend'.rows = (backend.rows \cup Staged(s).new) \ Staged(s).deleted
                 /\ sessions'[s].new = {}
                 /\ sessions'[s].deleted = {}
           /\ op("rollback") =>
                 /\ backend' = backend
                 /\ sessions'[s].new = {}
                 /\ sessions'[s].deleted = {}
           /\ (op("add") /\ ~staged) =>
                 /\ Records \subseteq backend'.rows
                 /\ sessions'[s].new = {}
                 /\ backend.rows = {} =>
                       \A r \in Records, c \in Columns :
                           QueryOnField(r, c, backend'.rows) = {RecordRow(r)}
           /\ (op("delete") /\ ~staged) =>
                 /\ backend'.rows = (backend.rows \cup Staged(s).new) \ Records
                 /\ sessions'[s].deleted = {}]_vars

C19_Witness ==
    /\ last.op = "add"
    /\ ~last.arg
    /\ last.err = "none"
    /\ ~scoped_sessions
    /\ TableReady(St)
    /\ Records \subseteq sessions[last.touched].new
    /\ backend.rows = {}

\* C20: in unscoped mode close_session closes the stored session and clears
\* the slot, and does nothing and raises nothing when no session is stored;
\* right after it the data operations fail with NoActiveSession and
\* gen_session(persist=True) stores a fresh session again.
C20_CloseSessionUnscoped ==
    [][/\ (~scoped_sessions /\ last'.op = "close_session") =>
             /\ last'.err = "none"
             /\ session' = None
             /\ session # None =>
                   /\ sessions'[session].closed
                   /\ \A s \in 1..Len(sessions) \ {session} : sessions'[s] = sessions[s]
             /\ session = None => sessions' = sessions
             /\ <<engine, session_factory, metadata, engines, factories, backend>>'
                   = <<engine, session_factory, metadata, engines, factories, backend>>
       /\ (last.op = "close_session" /\ ~scoped_sessions /\ last'.op \in DataOps) =>
             last'.err = "NoActiveSession"
       /\ (last.op = "close_session" /\ ~scoped_sessions /\ session_factory # None
             /\ last'.op = "gen_session" /\ last'.arg) =>
             /\ last'.err = "none"
             /\ session' = Len(sessions) + 1
             /\ ~sessions'[session'].closed]_vars

C20_Witness ==
    /\ ~scoped_sessions
    /\ last.op = "close_session"
    /\ last.touched = MaxSessions
    /\ session = None
    /\ \A s \in 1..MaxSessions : sessions[s].closed

\* C21: the engine the manager holds is the one made by the latest
\* create_engine step (direct or through connect), made while the slot was
\* empty, and it is not disposed; every engine made earlier has been disposed:
\* no undisposed engine exists that the manager does not hold.
C21_NoOrphanEngine ==
    /\ [](/\ \A e \in 1..Len(engines) : e # engine => engines[e].disposed > 0
          /\ engine # None => engine = Len(engines) /\ engines[engine].disposed = 0)
    /\ [][engines' # engines /\ Len(engines') > Len(engines) =>
            /\ last'.op \in {"create_engine", "connect"}
            /\ engine = None
            /\ Len(engines') = Len(engines) + 1
            /\ engine' = Len(engines')]_vars

C21_Witness ==
    /\ Len(engines) = MaxEngines
    /\ engine = MaxEngines
    /\ last.op = "connect"
    /\ \A e \in 1..(MaxEngines - 1) : engines[e].disposed > 0

\* C22: unscoped mode with a factory: gen_session(persist=False) succeeds
\* whether or not a session is stored, returns a newly minted open session
\* other than the stored one, and leaves the stored session as it was.
C22_PlainFactory ==
    [][(~scoped_sessions /\ session_factory # None
          /\ last'.op = "gen_session" /\ ~last'.arg) =>
            /\ last'.err = "none"
            /\ last'.ret = Len(sessions) + 1
            /\ last'.ret # session
            /\ sessions' = Append(sessions, sessions'[last'.ret])
            /\ ~sessions'[last'.ret].closed
            /\ sessions'[last'.ret].bind = factories[session_factory].bind
            /\ session' = session]_vars

C22_Witness ==
    /\ ~scoped_sessions
    /\ last.op = "gen_session"
    /\ ~last.arg
    /\ last.err = "none"
    /\ session # None
    /\ last.ret # session
    /\ ~sessions[session].closed
    /\ ~sessions[last.ret].closed

\* The drivers of the local embedded-file backend among those explored.
SqliteDrivers ==
    {<<"s", "q", "l", "i", "t", "e">>,
     <<"s", "q", "l", "i", "t", "e", "+", "p", "y", "s", "q", "l", "i", "t", "e">>,
     <<"m", "s", "s", "q", "l", "+", "p", "y", "s", "q", "l", "i", "t", "e">>}

\* C23 as stated: from_file prompts exactly when the URL read has no password
\* (none is given in it) and its driver name does not contain sqlite, and
\* otherwise uses the URL as read.
C23_Original ==
    LET due == ~ff.content.password.set /\ ff.content.drivername \notin SqliteDrivers
    IN  (ff.pc = "done" /\ ff.err = "none") =>
            /\ ff.prompted = due
            /\ ~due => ff.manager = ff.content

\* C23: from_file prompts exactly when the password of the URL read is absent
\* or empty and its driver name does not contain sqlite; the value typed is
\* the URL's password when the manager is constructed; otherwise nothing is
\* prompted and the manager gets the URL as read.
C23_FromFilePrompt ==
    LET nopw == ~ff.content.password.set \/ ff.content.password.text = ""
        due == nopw /\ ff.content.drivername \notin SqliteDrivers
    IN  /\ ff.pc = "prompt" => due
        /\ ff.pc = "construct" => ff.prompted = due
        /\ (ff.pc = "done" /\ ff.err = "none") =>
              /\ ff.prompted = due
              /\ due => ff.manager = [drivername |-> ff.content.drivername,
                                      password |-> [set |-> TRUE, text |-> ff.typed]]
              /\ ~due => ff.manager = ff.content
        /\ ff.err # "none" => ~ff.prompted /\ ff.manager = NoURL

C23_Witness ==
    /\ ff.pc = "done"
    /\ ff.prompted
    /\ ff.content.drivername = <<"p", "o", "s", "t", "g", "r", "e", "s", "q", "l">>
    /\ ff.content.password = [set |-> TRUE, text |-> ""]
    /\ ff.manager.password = [set |-> TRUE, text |-> "passphrase"]

\* C24: connect(bootstrap=True) on a manager whose metadata is not defined
\* raises ValueError.
C24_ConnectValueError ==
    [][(last'.op = "connect" /\ last'.arg /\ metadata = None) =>
            last'.exc = "ValueError"]_vars

\* C25: scoped mode: query, add, delete, commit and rollback fail with
\* NoActiveSession exactly when no session factory exists; with a factory
\* they pass the check and work on the caller's session of the registry,
\* whatever the manager's own slot holds, with no gen_session before and
\* also after close_session.
C25_ScopedNeedsFactoryOnly ==
    /\ [](scoped_sessions => session = None)
    /\ [][(scoped_sessions /\ last'.op \in DataOps) =>
            /\ (last'.err = "NoActiveSession") = (session_factory = None)
            /\ session_factory # None =>
                  /\ last'.err = "none"
                  /\ last'.touched # None
                  /\ \E c \in Contexts : registry'[c] = last'.touched
                  /\ ~sessions'[last'.touched].closed
            /\ session_factory = None => sessions' = sessions /\ registry' = registry]_vars

C25_Witness ==
    /\ scoped_sessions
    /\ last.op \in DataOps
    /\ last.err = "none"
    /\ last.touched = MaxSessions
    /\ \A s \in 1..(MaxSessions - 1) : sessions[s].closed

\* C26: whenever the manager holds both an engine and a session factory,
\* the factory is bound to the engine the manager holds.
C26_FactoryBoundToCurrentEngine ==
    (engine # None /\ session_factory # None) =>
        factories[session_factory].bind = engine

\* C27: an unscoped gen_session(persist=True) that fails because a session
\* is stored has minted no session: the sessions made from the factory are
\* the same before and after, so no open session is left that neither the
\* manager nor the caller holds.
C27_FailedGenSessionMintsNothing ==
    [][(~scoped_sessions /\ last'.op = "gen_session" /\ last'.arg
            /\ last'.err = "SessionAlreadyActive") =>
            /\ sessions' = sessions
            /\ \A s \in 1..Len(sessions') :
                  (~sessions'[s].closed /\ s # session') => s \in 1..Len(sessions)]_vars

\* C28: close_engine changes only the engine: the factory, the stored
\* session and every session object are left as they were. With no engine
\* after close_engine, a stored session still passes the active-session
\* check of the data operations and create_session_factory still reports
\* the existing factory.
C28_CloseEngineFrame ==
    /\ [][last'.op = "close_engine" =>
            /\ last'.err = "none"
            /\ engine' = None
            /\ <<session, session_factory, metadata, scoped_sessions>>' =
                  <<session, session_factory, metadata, scoped_sessions>>
            /\ <<sessions, factories, registry, backend>>' =
                  <<sessions, factories, registry, backend>>
            /\ Len(engines') = Len(engines)
            /\ \A e \in 1..Len(engines) : e # engine => engines'[e] = engines[e]]_vars
    /\ [][(last.op = "close_engine" /\ ~scoped_sessions /\ session # None
              /\ last'.op \in DataOps) =>
            /\ last'.err # "NoActiveSession"
            /\ last'.touched = session]_vars
    /\ [][(last.op = "close_engine" /\ session_factory # None
              /\ last'.op = "create_session_factory") =>
            /\ last'.err = "AlreadyFactory"
            /\ session_factory' = session_factory]_vars

C28_Witness ==
    /\ last.op \in DataOps
    /\ last.err = "none"
    /\ ~scoped_sessions
    /\ engine = None
    /\ session_factory # None
    /\ session # None
    /\ ~sessions[session].closed
    /\ last.touched = session

\* C29: bootstrapping is repeatable on a schema with a view registered
\* through create_view: when the schema's tables and views already exist,
\* bootstrap_db (with an engine) and connect(bootstrap=True) (without one)
\* succeed and leave the backend's tables and views unchanged.
C29_BootstrapRepeatable ==
    [][(/\ metadata # None
        /\ MdViews(metadata) # {}
        /\ MdTables(metadata) \subseteq backend.tables
        /\ MdViews(metadata) \subseteq backend.views
        /\ \/ last'.op = "bootstrap_db" /\ engine # None
           \/ last'.op = "connect" /\ last'.arg /\ engine = None) =>
            /\ last'.err = "none"
            /\ backend'.tables = backend.tables
            /\ backend'.views = backend.views]_vars

====
